---- MODULE Spec2Model ----
(***************************************************************************)
(* Verification model of liuzl/gearley.                                    *)
(*                                                                         *)
(* The repository holds two Earley recognisers:                            *)
(*   - package earley3 (src/earley3/earley.go, lines 1-503): Parser, with  *)
(*     TableColumn / TableState, the gamma rule, the epsilon closure and    *)
(*     the forest builder (getTrees / buildTreesHelper);                    *)
(*   - package gearley (src/earley3/earley.go lines 685-817,                *)
(*     src/earley_item.go, src/unnamed/part_000, src/unnamed/part_002):     *)
(*     grammar.Parse over a character input, with stateSet / earleyItem.    *)
(* Pointers are modelled by what identifies the object they point to: a     *)
(* *TableColumn by the column's index, a *Production by (rule name, number  *)
(* of the alternative), a *TableState stored in a column by (column,        *)
(* position), a *rule by its position in grammar.rules.                     *)
(***************************************************************************)
EXTENDS Integers, Sequences, FiniteSets, TLC

VARIABLES
    \* ---- package earley3: Parser
    grammar,      \* the rules reachable from the start rule, and the start rule
    tokens,       \* strings.Fields(text)
    columns,      \* Parser.columns
    finalState,   \* Parser.finalState
    pc,           \* position in NewParser / parse / getTrees
    ci,           \* parse: index i of the column being processed
    cj,           \* parse: index j of the state being processed
    changed,      \* handleEpsilons: the loop variable `changed`
    trees,        \* what getTrees returned
    \* ---- package earley3: one TableColumn driven by insert calls
    col,          \* the column
    colPrev,      \* its states before the last insert call
    colArg,       \* the argument of the last insert call
    colRet,       \* position of the state the last insert call returned
    \* ---- package gearley: grammar.Parse
    grules,       \* grammar.rules
    runes,        \* inputRunes
    sets,         \* the state `st`: one stateSet per position
    stateIndex,   \* the outer loop's stateIndex
    gi,           \* the inner loop's i
    gpc,          \* position in Parse
    \* ---- the symbol models: Terminal.Equal, Rule.Equal, isMatchingTerminal
    eqRecv,       \* the receiver
    eqOther,      \* the argument
    eqCall,       \* the method called last
    eqRet,        \* what it returned
    \* ---- package earley3: one buildTreesHelper call on a filled table
    btState,      \* its argument `state`
    btIndex,      \* its argument ruleIndex
    btEndCol,     \* its argument endCol
    btCands,      \* the states `st` its loop accepts, in order
    btpc          \* position in buildTreesHelper

pvars == <<grammar, tokens, columns, finalState, pc, ci, cj, changed, trees>>
cvars == <<col, colPrev, colArg, colRet>>
gvars == <<grules, runes, sets, stateIndex, gi, gpc>>
evars == <<eqRecv, eqOther, eqCall, eqRet>>
fvars == <<btState, btIndex, btEndCol, btCands, btpc>>
vars == <<pvars, cvars, gvars, evars, fvars>>

\* ---------------------------------------------------------------- bounds
MaxTokens == 3      \* longest token sequence given to NewParser
MaxStates == 6      \* cap on the states of one TableColumn
MaxColStates == 3   \* cap on the states of the column driven by insert calls
MaxRunes == 3       \* longest input given to grammar.Parse

\* the nil pointer to a TableColumn, and the nil pointer to a TableState
NilCol == -1
NilState == [col |-> -1, pos |-> 0]

RECURSIVE SeqsUpTo(_, _)
SeqsUpTo(S, n) ==
    IF n = 0 THEN {<<>>}
    ELSE LET shorter == SeqsUpTo(S, n - 1)
         IN shorter \cup {Append(s, x) : s \in {t \in shorter : Len(t) = n - 1}, x \in S}

\* ============================================================ earley3
\* const GAMMA_RULE = "ɣ"
GAMMA_RULE == "u0263"

\* Terminal{Value: v}
T(v) == [kind |-> "Terminal", value |-> v]
\* a *Rule placed in a production, as NewRule returns it and the tests pass it
R(n) == [kind |-> "*Rule", value |-> n]

\* The grammar of TestEarleyParse: SYM -> a, OP -> +, EXPR -> SYM | EXPR OP EXPR
ArithGrammar ==
    [start |-> "EXPR",
     rules |-> [n \in {"SYM", "OP", "EXPR"} |->
        CASE n = "SYM" -> << <<T("a")>> >>
          [] n = "OP" -> << <<T("+")>> >>
          [] OTHER -> << <<R("SYM")>>, <<R("EXPR"), R("OP"), R("EXPR")>> >>]]

\* S -> A a, A -> (empty production)
EpsGrammar ==
    [start |-> "S",
     rules |-> [n \in {"S", "A"} |->
        IF n = "S" THEN << <<R("A"), T("a")>> >> ELSE << <<>> >>]]

\* S -> a
LiteralGrammar ==
    [start |-> "S", rules |-> [n \in {"S"} |-> << <<T("a")>> >>]]

\* E -> E | a  (a cycle)
CycleGrammar ==
    [start |-> "E", rules |-> [n \in {"E"} |-> << <<R("E")>>, <<T("a")>> >>]]

Grammars == {ArithGrammar, EpsGrammar, LiteralGrammar, CycleGrammar}

TokenValues == {"a", "+"}

\* A *Production: the alternative alt of rule; the gamma production is the one
\* parse builds with NewProductionFromTerms(startRule).
Prod(rule, alt) == [rule |-> rule, alt |-> alt]
GammaProd == Prod(GAMMA_RULE, 1)

\* Production.Terms
Terms(g, p) ==
    IF p = GammaProd THEN <<R(g.start)>> ELSE g.rules[p.rule][p.alt]

\* Production.getRules: keeps the terms whose dynamic type is Rule (the struct)
getRules(terms) == SelectSeq(terms, LAMBDA t : t.kind = "Rule")

\* Production.Rules of a production built by NewProductionFromTerms
Rules(g, p) == getRules(Terms(g, p))

\* NewProductionFromTerms(terms...): the production it returns
NewProductionFromTerms(terms) == [Terms |-> terms, Rules |-> getRules(terms)]

\* NewProduction(terms...): a string becomes a Terminal, a ProductionTerm is
\* kept; getRules is not called, Rules stays nil
NewProduction(terms) ==
    [Terms |-> [n \in DOMAIN terms |->
                  IF terms[n].kind = "string" THEN T(terms[n].value) ELSE terms[n]],
     Rules |-> <<>>]

\* Production.size
size(g, p) == Len(Terms(g, p))

\* TableState: name, production, dotIndex, startCol, endCol
TableState(name, production, dotIndex, startCol, endCol) ==
    [name |-> name, production |-> production, dotIndex |-> dotIndex,
     startCol |-> startCol, endCol |-> endCol]

\* TableState.isCompleted
isCompleted(g, st) == st.dotIndex >= size(g, st.production)

\* TableState.getNextTerm: nil, or &production.Terms[dotIndex]; the second field
\* is the term the *ProductionTerm points to
getNextTerm(g, st) ==
    IF isCompleted(g, st) THEN [nil |-> TRUE, term |-> [kind |-> "nil", value |-> ""]]
    ELSE [nil |-> FALSE, term |-> Terms(g, st.production)[st.dotIndex + 1]]

\* `var term interface{} = state.getNextTerm()`: the dynamic type of term is the
\* static type of what getNextTerm returns, a pointer to the interface
DynType(ptr) == "*ProductionTerm"

\* TableColumn.insert: the comparison *state == *s is over all five fields
insert(c, state) ==
    LET hits == {k \in 1..Len(c.states) : state = c.states[k]}
    IN IF hits # {}
       THEN [col |-> c,
             ret |-> CHOOSE k \in hits : \A h \in hits : k <= h,
             same |-> FALSE]
       ELSE [col |-> [c EXCEPT !.states = Append(@, [state EXCEPT !.endCol = c.index])],
             ret |-> Len(c.states) + 1,
             same |-> TRUE]

\* the column with index k (columns[0] is the first of the slice)
Col(cols, k) == cols[k + 1]

\* Parser.scan: col is the column after the current one
scan(cols, k, state, token) ==
    IF token = Col(cols, k).token
    THEN [cols EXCEPT ![k + 1] =
            insert(@, TableState(state.name, state.production, state.dotIndex + 1,
                                 state.startCol, NilCol)).col]
    ELSE cols

\* Parser.predict: the loop over rule.Productions from alternative alt on
RECURSIVE predictFrom(_, _, _, _, _, _)
predictFrom(g, cols, k, ruleName, alt, chg) ==
    IF alt > Len(g.rules[ruleName]) THEN [cols |-> cols, changed |-> chg]
    ELSE LET st == TableState(ruleName, Prod(ruleName, alt), 0, k, NilCol)
             r == insert(Col(cols, k), st)
         IN predictFrom(g, [cols EXCEPT ![k + 1] = r.col], k, ruleName, alt + 1,
                        chg \/ r.same)

\* Parser.predict
predict(g, cols, k, ruleName) == predictFrom(g, cols, k, ruleName, 1, FALSE)

\* Parser.complete: the loop over state.startCol.states, a range over the slice as
\* it is when the loop starts (snapshot), from position n on
RECURSIVE completeFrom(_, _, _, _, _, _, _)
completeFrom(g, cols, k, state, snapshot, n, chg) ==
    IF n > Len(snapshot) THEN [cols |-> cols, changed |-> chg]
    ELSE LET st == snapshot[n]
             term == getNextTerm(g, st)
         IN IF DynType(term) = "*Rule" /\ term.term.value = state.name
            THEN LET new == TableState(term.term.value, st.production,
                                       st.dotIndex + 1, st.startCol, NilCol)
                     r == insert(Col(cols, k), new)
                 IN completeFrom(g, [cols EXCEPT ![k + 1] = r.col], k, state,
                                 snapshot, n + 1, chg \/ r.same)
            ELSE completeFrom(g, cols, k, state, snapshot, n + 1, chg)

\* Parser.complete
complete(g, cols, k, state) ==
    completeFrom(g, cols, k, state, Col(cols, state.startCol).states, 1, FALSE)

\* Parser.handleEpsilons: one pass of `for _, state := range col.states`, from
\* position n of the slice as it was when the pass started. `changed || f()`
\* does not call f once changed is true.
RECURSIVE epsilonPassFrom(_, _, _, _, _, _)
epsilonPassFrom(g, cols, k, snapshot, n, chg) ==
    IF n > Len(snapshot) THEN [cols |-> cols, changed |-> chg]
    ELSE LET state == snapshot[n]
             term == getNextTerm(g, state)
             p == IF DynType(term) = "*Rule" /\ ~chg
                  THEN predict(g, cols, k, term.term.value)
                  ELSE [cols |-> cols, changed |-> chg]
             c == IF isCompleted(g, state) /\ ~p.changed
                  THEN complete(g, p.cols, k, state)
                  ELSE p
         IN epsilonPassFrom(g, c.cols, k, snapshot, n + 1, c.changed)

\* one iteration of handleEpsilons' `for changed` loop
epsilonPass(g, cols, k) ==
    epsilonPassFrom(g, cols, k, Col(cols, k).states, 1, FALSE)

\* parse: the body of `for j := 0; j < len(col.states); j++`
parseState(g, cols, i, j) ==
    LET state == Col(cols, i).states[j + 1]
        term == getNextTerm(g, state)
    IN IF isCompleted(g, state) THEN complete(g, cols, i, state).cols
       ELSE CASE DynType(term) = "*Rule" -> predict(g, cols, i, term.term.value).cols
              [] DynType(term) = "*Terminal" ->
                    IF i + 1 < Len(cols)
                    THEN scan(cols, i + 1, state, term.term.value)
                    ELSE cols
              [] OTHER -> cols

\* parse: "find end state (return nil if not found)"
findEndState(g, cols) ==
    LET lastCol == cols[Len(cols)]
        hits == {n \in 1..Len(lastCol.states) :
                    /\ lastCol.states[n].name = GAMMA_RULE
                    /\ isCompleted(g, lastCol.states[n])}
    IN IF hits = {} THEN NilState
       ELSE [col |-> lastCol.index, pos |-> CHOOSE n \in hits : \A h \in hits : n <= h]
\* the TableState a pointer into the table points to
Deref(cols, ref) == Col(cols, ref.col).states[ref.pos]

\* Node{value: state, children: children}
Node(ref, children) == [value |-> ref, children |-> children]

RECURSIVE buildTreesHelper(_, _, _, _, _, _)
RECURSIVE candidatesFrom(_, _, _, _, _, _)
RECURSIVE subTreesFrom(_, _, _, _, _, _, _, _)

\* Parser.buildTrees
buildTrees(g, cols, ref) ==
    buildTreesHelper(g, cols, <<>>, ref,
                     Len(Rules(g, Deref(cols, ref).production)) - 1,
                     Deref(cols, ref).endCol)

\* buildTreesHelper: `for _, subTree := range self.buildTrees(st)`, from subs[m] on
subTreesFrom(g, cols, children, ref, ruleIndex, st, subs, m) ==
    IF m > Len(subs) THEN <<>>
    ELSE buildTreesHelper(g, cols, <<subs[m]>> \o children, ref, ruleIndex - 1,
                          st.startCol)
         \o subTreesFrom(g, cols, children, ref, ruleIndex, st, subs, m + 1)

\* buildTreesHelper: `for _, st := range state.endCol.states`, from position n on
candidatesFrom(g, cols, children, ref, ruleIndex, n) ==
    LET state == Deref(cols, ref)
        startCol == IF ruleIndex = 0 THEN state.startCol ELSE NilCol
        rule == Rules(g, state.production)[ruleIndex + 1]
        states == Col(cols, state.endCol).states
    IN IF n > Len(states) \/ [col |-> state.endCol, pos |-> n] = ref THEN <<>>
       ELSE LET st == states[n]
                rest == candidatesFrom(g, cols, children, ref, ruleIndex, n + 1)
            IN IF ~isCompleted(g, st) \/ st.name # rule.value THEN rest
               ELSE IF startCol # NilCol /\ st.startCol # startCol THEN rest
               ELSE subTreesFrom(g, cols, children, ref, ruleIndex, st,
                                 buildTrees(g, cols, [col |-> state.endCol, pos |-> n]), 1)
                    \o rest

\* Parser.buildTreesHelper (its endCol parameter is not read)
buildTreesHelper(g, cols, children, ref, ruleIndex, endCol) ==
    IF ruleIndex < 0 THEN <<Node(ref, children)>>
    ELSE candidatesFrom(g, cols, children, ref, ruleIndex, 1)

\* ---- the Parser as a state machine: NewParser, parse, getTrees
notParser == <<cvars, gvars, evars, fvars>>

\* NewParser: one column for position 0 and one per token
NewColumns(toks) ==
    [k \in 1..(Len(toks) + 1) |->
        [token |-> IF k = 1 THEN "" ELSE toks[k - 1], index |-> k - 1, states |-> <<>>]]

NoTrees == [status |-> "none", list |-> <<>>]

\* no column has outgrown the cap of the model
WithinCap == \A k \in 1..Len(columns) : Len(columns[k].states) <= MaxStates

\* parse: the gamma state is appended to column 0
Seed ==
    /\ pc = "parse"
    /\ columns' = [columns EXCEPT ![1].states =
                      Append(@, TableState(GAMMA_RULE, GammaProd, 0, 0, NilCol))]
    /\ pc' = "walk"
    /\ ci' = 0
    /\ cj' = 0
    /\ UNCHANGED <<grammar, tokens, finalState, changed, trees>>
    /\ UNCHANGED notParser

\* parse: one iteration of the loop over the states of column ci
WalkState ==
    /\ pc = "walk"
    /\ cj < Len(Col(columns, ci).states)
    /\ WithinCap
    /\ columns' = parseState(grammar, columns, ci, cj)
    /\ cj' = cj + 1
    /\ UNCHANGED <<grammar, tokens, finalState, pc, ci, changed, trees>>
    /\ UNCHANGED notParser

\* parse: the walk of column ci is over, handleEpsilons(col) runs one pass of its
\* loop; when nothing changed, the loop over the columns goes on
HandleEpsilons ==
    /\ IF pc = "walk" THEN cj >= Len(Col(columns, ci).states) ELSE pc = "eps"
    /\ WithinCap
    /\ LET r == epsilonPass(grammar, columns, ci)
       IN /\ columns' = r.cols
          /\ changed' = r.changed
          /\ IF r.changed THEN /\ pc' = "eps"
                               /\ UNCHANGED <<ci, cj>>
             ELSE IF ci + 1 < Len(columns) THEN /\ pc' = "walk"
                                                /\ ci' = ci + 1
                                                /\ cj' = 0
             ELSE /\ pc' = "find"
                  /\ UNCHANGED <<ci, cj>>
    /\ UNCHANGED <<grammar, tokens, finalState, trees>>
    /\ UNCHANGED notParser

\* parse: the search of the last column; NewParser stores the result
FindEndState ==
    /\ pc = "find"
    /\ finalState' = findEndState(grammar, columns)
    /\ pc' = "parsed"
    /\ UNCHANGED <<grammar, tokens, columns, ci, cj, changed, trees>>
    /\ UNCHANGED notParser

\* Parser.getTrees: buildTrees(self.finalState) reads state.production first, a
\* nil pointer dereference when finalState is nil
GetTrees ==
    /\ pc = "parsed"
    /\ IF finalState = NilState
       THEN /\ trees' = [status |-> "panic", list |-> <<>>]
            /\ pc' = "panic"
       ELSE /\ trees' = [status |-> "returned",
                         list |-> buildTrees(grammar, columns, finalState)]
            /\ pc' = "done"
    /\ UNCHANGED <<grammar, tokens, columns, finalState, ci, cj, changed>>
    /\ UNCHANGED notParser
\* ============================================================ gearley
\* terminal{value: r} and nonTerminal{name: n}, the two symbols
terminal(r) == [isTerminal |-> TRUE, value |-> r, name |-> ""]
nonTerminal(n) == [isTerminal |-> FALSE, value |-> 0, name |-> n]

\* Rule(t, symbols...)
Rule(t, symbols) == [left |-> nonTerminal(t), right |-> symbols]

\* the runes of the inputs: 'a' (97), '+' (43) and the two-byte 'é' (233)
InputRunes == {97, 43, 233}

\* E -> S | E O E, S -> 'a', O -> '+'
ArithRules ==
    << Rule("E", <<nonTerminal("S")>>),
       Rule("E", <<nonTerminal("E"), nonTerminal("O"), nonTerminal("E")>>),
       Rule("S", <<terminal(97)>>),
       Rule("O", <<terminal(43)>>) >>

\* S -> A 'a', A -> (empty)
EpsRules == << Rule("S", <<nonTerminal("A"), terminal(97)>>), Rule("A", <<>>) >>

\* S -> 'a'
LiteralRules == << Rule("S", <<terminal(97)>>) >>

\* S -> A A, A -> 'a' | 'é'
PairRules ==
    << Rule("S", <<nonTerminal("A"), nonTerminal("A")>>),
       Rule("A", <<terminal(97)>>),
       Rule("A", <<terminal(233)>>) >>

RuleLists == {ArithRules, EpsRules, LiteralRules, PairRules}

\* the number of bytes of a rune in a Go string (UTF-8)
Utf8Len(r) == IF r < 128 THEN 1 ELSE IF r < 2048 THEN 2 ELSE IF r < 65536 THEN 3 ELSE 4

\* len(input): the number of bytes of the string
RECURSIVE ByteLen(_)
ByteLen(rs) == IF rs = <<>> THEN 0 ELSE Utf8Len(Head(rs)) + ByteLen(Tail(rs))

\* earleyItem{rule, dot, index}
earleyItem(rule, dot, index) == [rule |-> rule, dot |-> dot, index |-> index]

\* rule.length
length(rules, r) == Len(rules[r].right)

\* earleyItem.isCompleted
itemIsCompleted(rules, item) == item.dot = length(rules, item.rule)

\* earleyItem.getNext
getNext(rules, item) == rules[item.rule].right[item.dot + 1]

\* symbol.isMatchingTerminal
isMatchingTerminal(sym, r) == IF sym.isTerminal THEN r = sym.value ELSE FALSE

\* earleyItem.isNextMatchingTerminal
isNextMatchingTerminal(rules, item, nextRune) ==
    isMatchingTerminal(getNext(rules, item), nextRune)

\* newStateSet
newStateSet == [items |-> <<>>, itemSet |-> {}]

\* stateSet.putItem
putItem(s, item) ==
    IF item \in s.itemSet THEN s
    ELSE [items |-> Append(s.items, item), itemSet |-> s.itemSet \cup {item}]

\* newStateSetFromRules: the items are stored without going through putItem
newStateSetFromRules(rules) ==
    [items |-> [i \in 1..Len(rules) |-> earleyItem(i, 0, 0)], itemSet |-> {}]

\* initializeState
initializeState(rules, rs) ==
    [k \in 1..(Len(rs) + 1) |-> IF k = 1 THEN newStateSetFromRules(rules) ELSE newStateSet]

\* stateSet.findItemsToComplete: item.rule.right[item.dot] is read for every item,
\* an index out of range for a completed one
findItemsToComplete(rules, s, t) ==
    [panic |-> \E n \in 1..Len(s.items) : s.items[n].dot >= length(rules, s.items[n].rule),
     candidates |-> SelectSeq(s.items, LAMBDA item :
                        /\ item.dot < length(rules, item.rule)
                        /\ ~getNext(rules, item).isTerminal
                        /\ getNext(rules, item).name = t.name)]

\* grammar.getRulesForSymbol: the rules whose left side equals the symbol
getRulesForSymbol(rules, sym) ==
    SelectSeq([i \in 1..Len(rules) |-> i], LAMBDA i : rules[i].left = sym)

RECURSIVE putItems(_, _)
\* a loop of putItem calls over a list of items
putItems(s, items) ==
    IF items = <<>> THEN s ELSE putItems(putItem(s, Head(items)), Tail(items))

\* Parse: the items Completion puts, one per item to complete
advancedItems(candidates) ==
    [n \in 1..Len(candidates) |->
        earleyItem(candidates[n].rule, candidates[n].dot + 1, candidates[n].index)]

\* Predict with the origin set to the next position
predictedItemsNextIndex(rules, sym, k) ==
    LET found == getRulesForSymbol(rules, sym)
    IN [n \in 1..Len(found) |-> earleyItem(found[n], 0, k + 1)]

\* Parse: the items Predict puts, one per rule of the symbol
predictedItems(rules, sym, k) ==
    LET found == getRulesForSymbol(rules, sym)
    IN [n \in 1..Len(found) |-> earleyItem(found[n], 0, k)]

notRecognizer == <<pvars, cvars, evars, fvars>>

\* the item the inner loop is at
CurrentItem == sets[stateIndex + 1].items[gi + 1]

InInnerLoop == gpc = "inner" /\ gi < Len(sets[stateIndex + 1].items)

\* Parse: `for stateIndex <= len(input)`, then set := st.getAt(stateIndex)
OuterLoop ==
    /\ gpc = "outer"
    /\ IF stateIndex <= ByteLen(runes)
       THEN IF stateIndex >= Len(sets)
            THEN gpc' = "panic getAt" /\ UNCHANGED gi
            ELSE gpc' = "inner" /\ gi' = 0
       ELSE gpc' = "done" /\ UNCHANGED gi
    /\ UNCHANGED <<grules, runes, sets, stateIndex>>
    /\ UNCHANGED notRecognizer

\* Parse: the item is completed
Completion ==
    /\ InInnerLoop
    /\ itemIsCompleted(grules, CurrentItem)
    /\ LET item == CurrentItem
           found == findItemsToComplete(grules, sets[item.index + 1], grules[item.rule].left)
       IN IF found.panic
          THEN gpc' = "panic findItemsToComplete" /\ UNCHANGED sets
          ELSE /\ sets' = [sets EXCEPT ![stateIndex + 1] =
                              putItems(@, advancedItems(found.candidates))]
               /\ UNCHANGED gpc
    /\ gi' = gi + 1
    /\ UNCHANGED <<grules, runes, stateIndex>>
    /\ UNCHANGED notRecognizer

\* Parse: inputRunes[stateIndex] is read for an item that is not completed
ReadPastInput ==
    /\ InInnerLoop
    /\ ~itemIsCompleted(grules, CurrentItem)
    /\ stateIndex >= Len(runes)
    /\ gpc' = "panic inputRunes"
    /\ gi' = gi + 1
    /\ UNCHANGED <<grules, runes, sets, stateIndex>>
    /\ UNCHANGED notRecognizer

\* Parse: "Scan - the next symbol is Terminal and matches"
Scan ==
    /\ InInnerLoop
    /\ ~itemIsCompleted(grules, CurrentItem)
    /\ stateIndex < Len(runes)
    /\ isNextMatchingTerminal(grules, CurrentItem, runes[stateIndex + 1])
    /\ sets' = [sets EXCEPT ![stateIndex + 2] =
                  putItem(@, earleyItem(CurrentItem.rule, CurrentItem.dot + 1,
                                        CurrentItem.index))]
    /\ gi' = gi + 1
    /\ UNCHANGED <<grules, runes, stateIndex, gpc>>
    /\ UNCHANGED notRecognizer

\* Parse: "Predict - the next symbol is Non Terminal"
Predict ==
    /\ InInnerLoop
    /\ ~itemIsCompleted(grules, CurrentItem)
    /\ stateIndex < Len(runes)
    /\ ~isNextMatchingTerminal(grules, CurrentItem, runes[stateIndex + 1])
    /\ ~getNext(grules, CurrentItem).isTerminal
    /\ sets' = [sets EXCEPT ![stateIndex + 1] =
                  putItems(@, predictedItems(grules, getNext(grules, CurrentItem),
                                             stateIndex))]
    /\ gi' = gi + 1
    /\ UNCHANGED <<grules, runes, stateIndex, gpc>>
    /\ UNCHANGED notRecognizer

\* Parse: the next symbol is a terminal that does not match; the loop goes on
NoMatch ==
    /\ InInnerLoop
    /\ ~itemIsCompleted(grules, CurrentItem)
    /\ stateIndex < Len(runes)
    /\ ~isNextMatchingTerminal(grules, CurrentItem, runes[stateIndex + 1])
    /\ getNext(grules, CurrentItem).isTerminal
    /\ gi' = gi + 1
    /\ UNCHANGED <<grules, runes, sets, stateIndex, gpc>>
    /\ UNCHANGED notRecognizer

\* Parse: the inner loop is over, stateIndex++
NextSet ==
    /\ gpc = "inner"
    /\ gi >= Len(sets[stateIndex + 1].items)
    /\ stateIndex' = stateIndex + 1
    /\ gpc' = "outer"
    /\ UNCHANGED <<grules, runes, sets, gi>>
    /\ UNCHANGED notRecognizer
\* ============================================ one TableColumn and insert
notColumn == <<pvars, gvars, evars, fvars>>

\* the states parse, scan, predict and complete build: endCol is not set
FreshStates(k) ==
    {TableState(p.rule, p, d, o, NilCol) :
        p \in {GammaProd, Prod("S", 1)}, d \in 0..1, o \in 0..k}

\* a call of col.insert(state)
Insert ==
    /\ Len(col.states) < MaxColStates
    /\ \E state \in FreshStates(col.index) :
          LET r == insert(col, state)
          IN /\ col' = r.col
             /\ colPrev' = col.states
             /\ colArg' = state
             /\ colRet' = r.ret
    /\ UNCHANGED notColumn

\* ============================================ Equal and isMatchingTerminal
notEqual == <<pvars, cvars, gvars, fvars>>

\* the strings and names of the calls
StringValues == {"", "a", "+", "liu"}

\* the values an interface{} argument holds: nil, a string, a Terminal, a
\* *Terminal, a Rule
Nil == [type |-> "nil", value |-> ""]
InterfaceValues ==
    {Nil} \cup [type : {"string", "Terminal", "*Terminal", "Rule"}, value : StringValues]

\* Terminal.Equal without the string case
TerminalEqualNoString(self, other) ==
    other.type = "Terminal" /\ other.value = self.value

\* Terminal.Equal: self == other holds when other holds a Terminal of the same
\* Value; other.(string) succeeds when other holds a string
TerminalEqual(self, other) ==
    IF other.type = "Terminal" /\ other.value = self.value THEN TRUE
    ELSE IF other.type = "string" /\ other.value = self.value THEN TRUE
    ELSE FALSE

\* Rule.Equal
RuleEqual(self, other) == FALSE

CallTerminalEqual ==
    /\ \E v \in StringValues, other \in InterfaceValues :
          /\ eqRecv' = T(v)
          /\ eqOther' = other
          /\ eqRet' = TerminalEqual(T(v), other)
    /\ eqCall' = "Terminal.Equal"
    /\ UNCHANGED notEqual

CallRuleEqual ==
    /\ \E n \in StringValues, other \in InterfaceValues :
          /\ eqRecv' = [kind |-> "Rule", value |-> n]
          /\ eqOther' = other
          /\ eqRet' = RuleEqual([kind |-> "Rule", value |-> n], other)
    /\ eqCall' = "Rule.Equal"
    /\ UNCHANGED notEqual

CallIsMatchingTerminal ==
    /\ \E sym \in {terminal(r) : r \in InputRunes} \cup {nonTerminal(n) : n \in {"S", "A"}},
          r \in InputRunes :
          /\ eqRecv' = sym
          /\ eqOther' = [type |-> "rune", value |-> r]
          /\ eqRet' = isMatchingTerminal(sym, r)
    /\ eqCall' = "isMatchingTerminal"
    /\ UNCHANGED notEqual

\* ============================================ the specifications
IdleParser ==
    /\ grammar = LiteralGrammar
    /\ tokens = <<>>
    /\ columns = <<>>
    /\ finalState = NilState
    /\ pc = "idle"
    /\ ci = 0
    /\ cj = 0
    /\ changed = FALSE
    /\ trees = NoTrees

IdleColumn ==
    /\ col = [token |-> "", index |-> 0, states |-> <<>>]
    /\ colPrev = <<>>
    /\ colArg = TableState("", GammaProd, 0, 0, NilCol)
    /\ colRet = 0

IdleRecognizer ==
    /\ grules = <<>>
    /\ runes = <<>>
    /\ sets = <<>>
    /\ stateIndex = 0
    /\ gi = 0
    /\ gpc = "idle"

IdleEqual ==
    /\ eqRecv = T("")
    /\ eqOther = Nil
    /\ eqCall = "none"
    /\ eqRet = FALSE

IdleForest ==
    /\ btState = NilState
    /\ btIndex = 0
    /\ btEndCol = NilCol
    /\ btCands = <<>>
    /\ btpc = "idle"

\* NewParser(startRule, text) has built the columns and calls parse
Init ==
    /\ grammar \in Grammars
    /\ tokens \in SeqsUpTo(TokenValues, MaxTokens)
    /\ columns = NewColumns(tokens)
    /\ finalState = NilState
    /\ pc = "parse"
    /\ ci = 0
    /\ cj = 0
    /\ changed = FALSE
    /\ trees = NoTrees
    /\ IdleColumn /\ IdleRecognizer /\ IdleEqual /\ IdleForest

Next == Seed \/ WalkState \/ HandleEpsilons \/ FindEndState \/ GetTrees

Spec == Init /\ [][Next]_vars

\* the parser is one thread that runs until it returns or panics
FairSpec == Spec /\ WF_vars(Next)

\* g.Parse(input) has run stringToRunes and initializeState
InitParse ==
    /\ grules \in RuleLists
    /\ runes \in SeqsUpTo(InputRunes, MaxRunes)
    /\ sets = initializeState(grules, runes)
    /\ stateIndex = 0
    /\ gi = 0
    /\ gpc = "outer"
    /\ IdleParser /\ IdleColumn /\ IdleEqual /\ IdleForest

NextParse ==
    OuterLoop \/ Completion \/ ReadPastInput \/ Scan \/ Predict \/ NoMatch \/ NextSet

SpecParse == InitParse /\ [][NextParse]_vars

\* a column as parse seeds column 0, or an empty later column
InitInsert ==
    /\ col \in {[token |-> "", index |-> 0,
                 states |-> <<TableState(GAMMA_RULE, GammaProd, 0, 0, NilCol)>>],
                [token |-> "a", index |-> 1, states |-> <<>>]}
    /\ colPrev = col.states
    /\ colArg = TableState("", GammaProd, 0, 0, NilCol)
    /\ colRet = 0
    /\ IdleParser /\ IdleRecognizer /\ IdleEqual /\ IdleForest

NextInsert == Insert

SpecInsert == InitInsert /\ [][NextInsert]_vars

InitEqual == IdleEqual /\ IdleParser /\ IdleColumn /\ IdleRecognizer /\ IdleForest

NextEqual == CallTerminalEqual \/ CallRuleEqual \/ CallIsMatchingTerminal

SpecEqual == InitEqual /\ [][NextEqual]_vars
\* ============================================ what the grammar derives
\* terms[n..] derives tokens[i+1..j], given the spans D known so far
RECURSIVE Match(_, _, _, _, _, _)
Match(terms, n, i, j, toks, D) ==
    IF n > Len(terms) THEN i = j
    ELSE IF terms[n].kind = "Terminal"
         THEN i < j /\ toks[i + 1] = terms[n].value
              /\ Match(terms, n + 1, i + 1, j, toks, D)
         ELSE \E m \in i..j : /\ <<terms[n].value, i, m>> \in D
                              /\ Match(terms, n + 1, m, j, toks, D)

\* the spans <<A, i, j>> with A =>* tokens[i+1..j]: the least fixed point
RECURSIVE Spans(_, _, _)
Spans(g, toks, D) ==
    LET more == {<<a, i, j>> \in (DOMAIN g.rules) \X (0..Len(toks)) \X (0..Len(toks)) :
                    i <= j /\ \E alt \in 1..Len(g.rules[a]) :
                                 Match(g.rules[a][alt], 1, i, j, toks, D)}
    IN IF more \subseteq D THEN D ELSE Spans(g, toks, D \cup more)

\* the grammar derives the token sequence from its start rule
Derives(g, toks) == <<g.start, 0, Len(toks)>> \in Spans(g, toks, {})

\* a term that names a rule, however the production holds it
IsRuleTerm(t) == t.kind \in {"*Rule", "Rule"}

RECURSIVE Catalan(_)
Catalan(n) == IF n = 0 THEN 1 ELSE (2 * (2 * n - 1) * Catalan(n - 1)) \div (n + 1)

\* n operands 'a' separated by '+'
IsOperandChain(toks) ==
    /\ Len(toks) % 2 = 1
    /\ \A k \in 1..Len(toks) : toks[k] = (IF k % 2 = 1 THEN "a" ELSE "+")

ParseReturned == pc \in {"parsed", "done", "panic"}
GetTreesEnded == pc \in {"done", "panic"}

\* ============================================ buildTreesHelper on a filled table
notForest == <<cvars, gvars, evars>>

\* a Rule value placed in a production: the case getRules keeps
RuleValue(n) == [kind |-> "Rule", value |-> n]

\* X -> Y Z, Y -> a, Z -> a | +
PairGrammar ==
    [start |-> "X", order |-> <<"Y", "Z", "X">>,
     rules |-> [n \in {"X", "Y", "Z"} |->
        CASE n = "X" -> << <<RuleValue("Y"), RuleValue("Z")>> >>
          [] n = "Y" -> << <<T("a")>> >>
          [] OTHER -> << <<T("a")>>, <<T("+")>> >>]]

\* the grammar of TestEarleyParse with Rule values in the productions
ArithValueGrammar ==
    [start |-> "EXPR", order |-> <<"SYM", "OP", "EXPR">>,
     rules |-> [n \in {"SYM", "OP", "EXPR"} |->
        CASE n = "SYM" -> << <<T("a")>> >>
          [] n = "OP" -> << <<T("+")>> >>
          [] OTHER -> << <<RuleValue("SYM")>>,
                         <<RuleValue("EXPR"), RuleValue("OP"), RuleValue("EXPR")>> >>]]

\* S -> A, A -> a | +
UnitGrammar ==
    [start |-> "S", order |-> <<"A", "S">>,
     rules |-> [n \in {"S", "A"} |->
        IF n = "S" THEN << <<RuleValue("A")>> >> ELSE << <<T("a")>>, <<T("+")>> >>]]

ForestGrammars == {PairGrammar, ArithValueGrammar, UnitGrammar}

\* the completed states that end in column k of a filled table: one for each
\* alternative of each rule and each origin it spans from, and the gamma state
CompletedStates(g, toks, k) ==
    LET D == Spans(g, toks, {})
        ofAlt(a, alt) ==
            {TableState(a, Prod(a, alt), Len(g.rules[a][alt]), o, k) :
                o \in {i \in 0..k : Match(g.rules[a][alt], 1, i, k, toks, D)}}
        ofRule(a) == UNION {ofAlt(a, alt) : alt \in 1..Len(g.rules[a])}
    IN UNION {ofRule(a) : a \in DOMAIN g.rules}
       \cup (IF k = Len(toks) /\ <<g.start, 0, k>> \in D
             THEN {TableState(GAMMA_RULE, GammaProd, 1, 0, k)} ELSE {})

\* "the states are filled in order of completion": a rule after the rules its
\* productions name, a longer span after a shorter one
CompletedBefore(g, s, t) ==
    LET rank(name) == IF name = GAMMA_RULE THEN Len(g.order) + 1
                      ELSE CHOOSE n \in 1..Len(g.order) : g.order[n] = name
        key(st) == <<rank(st.name), st.endCol - st.startCol, st.production.alt>>
    IN \E n \in 1..3 : /\ key(s)[n] < key(t)[n]
                       /\ \A m \in 1..(n - 1) : key(s)[m] = key(t)[m]

RECURSIVE InOrder(_, _)
InOrder(g, S) ==
    IF S = {} THEN <<>>
    ELSE LET first == CHOOSE s \in S : \A t \in S \ {s} : CompletedBefore(g, s, t)
         IN <<first>> \o InOrder(g, S \ {first})

\* the table of a finished recognition
FilledTable(g, toks) ==
    [k \in 1..(Len(toks) + 1) |->
        [token |-> IF k = 1 THEN "" ELSE toks[k - 1], index |-> k - 1,
         states |-> InOrder(g, CompletedStates(g, toks, k - 1))]]

\* buildTreesHelper: the states `st` that the loop over state.endCol.states
\* lets through to buildTrees(st), from position n on
RECURSIVE acceptedFrom(_, _, _, _, _)
acceptedFrom(g, cols, ref, ruleIndex, n) ==
    LET state == Deref(cols, ref)
        startCol == IF ruleIndex = 0 THEN state.startCol ELSE NilCol
        rule == Rules(g, state.production)[ruleIndex + 1]
        states == Col(cols, state.endCol).states
    IN IF n > Len(states) \/ [col |-> state.endCol, pos |-> n] = ref THEN <<>>
       ELSE LET st == states[n]
                rest == acceptedFrom(g, cols, ref, ruleIndex, n + 1)
            IN IF ~isCompleted(g, st) \/ st.name # rule.value THEN rest
               ELSE IF startCol # NilCol /\ st.startCol # startCol THEN rest
               ELSE <<[col |-> state.endCol, pos |-> n]>> \o rest

\* the pointers to the states of the table
StateRefs(cols) ==
    UNION {{[col |-> k - 1, pos |-> n] : n \in 1..Len(cols[k].states)} : k \in DOMAIN cols}

\* control enters buildTreesHelper(children, state, ruleIndex, endCol)
Enter(ref, ruleIndex, endCol) ==
    /\ btState' = ref
    /\ btIndex' = ruleIndex
    /\ btEndCol' = endCol
    /\ btCands' = IF ruleIndex < 0 THEN <<>>
                  ELSE acceptedFrom(grammar, columns, ref, ruleIndex, 1)
    /\ btpc' = IF ruleIndex < 0 THEN "base" ELSE "loop"

\* buildTrees(state): by a caller, or by the loop for a state it accepted
CallBuildTrees ==
    /\ \E ref \in StateRefs(columns) :
          /\ IF btpc = "loop" THEN \E n \in DOMAIN btCands : btCands[n] = ref
             ELSE btpc = "idle"
          /\ Enter(ref, Len(Rules(grammar, Deref(columns, ref).production)) - 1,
                   Deref(columns, ref).endCol)
    /\ UNCHANGED pvars
    /\ UNCHANGED notForest

\* the loop's own call, for a subTree of an accepted st:
\* buildTreesHelper(&children2, state, ruleIndex-1, st.startCol)
Recurse ==
    /\ btpc = "loop"
    /\ \E n \in DOMAIN btCands :
          /\ buildTrees(grammar, columns, btCands[n]) # <<>>
          /\ Enter(btState, btIndex - 1, Deref(columns, btCands[n]).startCol)
    /\ UNCHANGED pvars
    /\ UNCHANGED notForest

\* the call returns its outputs
Return ==
    /\ btpc \in {"base", "loop"}
    /\ btState' = NilState
    /\ btIndex' = 0
    /\ btEndCol' = NilCol
    /\ btCands' = <<>>
    /\ btpc' = "idle"
    /\ UNCHANGED pvars
    /\ UNCHANGED notForest

\* a recognition has filled the table; buildTrees is called on its states
InitForest ==
    /\ grammar \in ForestGrammars
    /\ tokens \in SeqsUpTo(TokenValues, MaxTokens)
    /\ columns = FilledTable(grammar, tokens)
    /\ finalState = findEndState(grammar, columns)
    /\ pc = "idle"
    /\ ci = 0
    /\ cj = 0
    /\ changed = FALSE
    /\ trees = NoTrees
    /\ IdleColumn /\ IdleRecognizer /\ IdleEqual /\ IdleForest

NextForest == CallBuildTrees \/ Recurse \/ Return

SpecForest == InitForest /\ [][NextForest]_vars

\* the completed items the extraction is to try for the i-th non-terminal of
\* the item at ref when the right boundary is the column `boundary`
CandidatesAtBoundary(g, cols, ref, i, boundary) ==
    LET S == Deref(cols, ref)
        A == SelectSeq(Terms(g, S.production), IsRuleTerm)[i + 1].value
        states == Col(cols, boundary).states
    IN {[col |-> boundary, pos |-> n] :
          n \in {m \in 1..Len(states) :
                   /\ ref.col = boundary => m < ref.pos
                   /\ isCompleted(g, states[m])
                   /\ states[m].name = A
                   /\ states[m].startCol <= boundary
                   /\ i = 0 => states[m].startCol = S.startCol}}

\* ============================================ the claims

\* C1: when recognition has processed all columns, the last column holds a
\* completed gamma item with origin 0 (parse returns a non-nil final state) if
\* and only if the grammar derives the tokens from the start rule.
C1_AcceptanceEquivalence ==
    ParseReturned =>
        LET last == columns[Len(columns)].states
            accepting == \E n \in 1..Len(last) :
                            /\ last[n].name = GAMMA_RULE
                            /\ isCompleted(grammar, last[n])
                            /\ last[n].startCol = 0
        IN /\ accepting <=> Derives(grammar, tokens)
           /\ (finalState # NilState) <=> Derives(grammar, tokens)

\* C2: for the arithmetic grammar and n operands 'a' separated by '+', the input
\* is accepted and getTrees returns exactly Catalan(n-1) trees.
C2_CatalanTrees ==
    (GetTreesEnded /\ grammar = ArithGrammar /\ IsOperandChain(tokens)) =>
        /\ finalState # NilState
        /\ trees.status = "returned"
        /\ Len(trees.list) = Catalan((Len(tokens) + 1) \div 2 - 1)

\* C3: when the grammar does not derive the input, recognition ends with no
\* final gamma state and getTrees returns an empty list instead of failing.
C3_RejectionGivesEmptyList ==
    (GetTreesEnded /\ ~Derives(grammar, tokens)) =>
        /\ finalState = NilState
        /\ trees.status = "returned"
        /\ trees.list = <<>>

\* C5: for every grammar and input, recognition (the walk of each column and
\* the epsilon-closure loop) reaches its end, and forest extraction from the
\* final state returns.
C5_RecognitionAndExtractionReturn ==
    /\ <>ParseReturned
    /\ <>(trees.status = "returned")

\* C6: at every point of recognition, no two items of a column have the same
\* rule, dot and origin, the seeded and predicted items of column 0 included.
C6_NoDuplicateItems ==
    \A k \in 1..Len(sets) : \A m, n \in 1..Len(sets[k].items) :
        m # n => sets[k].items[m] # sets[k].items[n]

\* C7: at every point of recognition, every item stored in column k has an
\* origin between 0 and k: predicted items have origin k, scanned and completed
\* items inherit the origin of the item they advance.
C7_OriginBound ==
    \A k \in 1..Len(sets) : \A n \in 1..Len(sets[k].items) :
        LET item == sets[k].items[n]
        IN /\ 0 <= item.index
           /\ item.index <= k - 1
           /\ item.dot = 0 => item.index = k - 1
           /\ item.dot > 0 =>
                 \E k2 \in 1..k : \E n2 \in 1..Len(sets[k2].items) :
                    sets[k2].items[n2] = earleyItem(item.rule, item.dot - 1, item.index)

\* C7 witness: a column after the first holds a predicted item, whose origin is
\* the column, and an advanced item, whose origin is an earlier column
C7_Witness ==
    \E k \in 2..Len(sets) :
        /\ \E n \in 1..Len(sets[k].items) :
              sets[k].items[n].dot = 0 /\ sets[k].items[n].index = k - 1
        /\ \E n \in 1..Len(sets[k].items) :
              sets[k].items[n].dot > 0 /\ sets[k].items[n].index < k - 1

\* C8: Terminal.Equal(other) is true exactly when other is a Terminal of the
\* same value or a string equal to the value; a non-terminal never matches.
C8_TerminalEqual ==
    /\ eqCall = "Terminal.Equal" =>
          (eqRet <=> /\ eqOther.type \in {"Terminal", "string"}
                     /\ eqOther.value = eqRecv.value)
    /\ eqCall = "Rule.Equal" => ~eqRet
    /\ eqCall = "isMatchingTerminal" =>
          (eqRet <=> eqRecv.isTerminal /\ eqRecv.value = eqOther.value)

\* C8 witness: Equal has answered true for a string and false for a *Terminal
\* of the same value
C8_Witness ==
    /\ eqCall = "Terminal.Equal"
    /\ eqRecv.value = "liu"
    /\ eqOther = [type |-> "string", value |-> "liu"]
    /\ eqRet

\* C9: when the recognizer has finished column k, the column is closed under
\* Predict and Complete.
C9_ColumnClosed ==
    \A k \in 1..Len(columns) :
        (ParseReturned \/ (pc \in {"walk", "eps", "find"} /\ ci > k - 1)) =>
            LET states == columns[k].states
                has(st) == \E n \in 1..Len(states) :
                              /\ states[n].production = st.production
                              /\ states[n].dotIndex = st.dotIndex
                              /\ states[n].startCol = st.startCol
            IN \A n \in 1..Len(states) :
                  LET state == states[n]
                      term == getNextTerm(grammar, state).term
                  IN /\ (~isCompleted(grammar, state) /\ IsRuleTerm(term)) =>
                          \A alt \in 1..Len(grammar.rules[term.value]) :
                              has(TableState(term.value, Prod(term.value, alt), 0,
                                             k - 1, NilCol))
                     /\ isCompleted(grammar, state) =>
                          \A m \in 1..Len(Col(columns, state.startCol).states) :
                              LET P == Col(columns, state.startCol).states[m]
                                  next == getNextTerm(grammar, P).term
                              IN (~isCompleted(grammar, P) /\ IsRuleTerm(next)
                                      /\ next.value = state.production.rule) =>
                                   has(TableState(P.name, P.production, P.dotIndex + 1,
                                                  P.startCol, NilCol))

\* rule name, production, dot and origin are equal
SameItem(s, t) ==
    /\ s.name = t.name
    /\ s.production = t.production
    /\ s.dotIndex = t.dotIndex
    /\ s.startCol = t.startCol

\* C10: insert of an item whose rule name, production, dot and origin equal
\* those of a stored item returns the stored item and leaves the list
\* unchanged; otherwise it appends the item and returns it.
C10_InsertDeduplicates ==
    colRet # 0 =>
        IF \E n \in 1..Len(colPrev) : SameItem(colPrev[n], colArg)
        THEN /\ col.states = colPrev
             /\ SameItem(col.states[colRet], colArg)
        ELSE /\ Len(col.states) = Len(colPrev) + 1
             /\ SubSeq(col.states, 1, Len(colPrev)) = colPrev
             /\ colRet = Len(col.states)
             /\ SameItem(col.states[colRet], colArg)
\* C11: no recognition step fails: an item of the last column whose next symbol
\* is a terminal reads no token past the end of the input, and Complete skips
\* the completed items of the origin column without reading past the end of
\* their production.
C11_NoStepFails ==
    gpc \notin {"panic inputRunes", "panic findItemsToComplete"}

\* C13: the chart has N + 1 columns for an input of N characters, multi-byte
\* ones included, and the outer loop processes the columns 0..N, each once and
\* in ascending order, never indexing a column beyond N.
C13_ColumnsZeroToN ==
    /\ Len(sets) = Len(runes) + 1
    /\ gpc # "panic getAt"
    /\ gpc = "inner" => stateIndex <= Len(runes)
    /\ gpc = "done" => stateIndex = Len(runes) + 1

\* the productions of the grammar, and the gamma production
AllProductions(g) ==
    {GammaProd} \cup
    UNION {{Prod(a, alt) : alt \in 1..Len(g.rules[a])} : a \in DOMAIN g.rules}

\* the names of the terms of a list
Names(terms) == [n \in DOMAIN terms |-> terms[n].value]

\* C14: for every production the parser works with (built by
\* NewProductionFromTerms from rule pointers, built by NewProduction, and the
\* gamma production) Rules holds exactly the non-terminal terms of Terms, in
\* order.
C14_RulesAreTheNonTerminals ==
    \A p \in AllProductions(grammar) :
        LET terms == Terms(grammar, p)
            nonTerminals == Names(SelectSeq(terms, IsRuleTerm))
        IN /\ Names(Rules(grammar, p)) = nonTerminals
           /\ Names(NewProductionFromTerms(terms).Rules) = nonTerminals
           /\ Names(NewProduction(terms).Rules) = nonTerminals

====
